---- MODULE Spec2Model ----
(***************************************************************************)
(* Model of the gamemaster-scheduling-app: the SQLite store (users, games, *)
(* rsvps), the in-memory session registry (handlers.SessionStore) and the  *)
(* HTTP handlers that use them (Register, Login, Logout, AuthMiddleware,   *)
(* SubmitRSVP, PostChatMessage, CreateGame), served by concurrent          *)
(* goroutines of net/http.                                                 *)
(*                                                                         *)
(* Two specifications share the data-access operators:                     *)
(*   SpecRSVP  drives the data-access layer of rsvps_db.go directly, the   *)
(*             way its tests do (users and a game are set up first);       *)
(*   Spec      is the HTTP server: one goroutine per in-flight request.    *)
(***************************************************************************)
EXTENDS Integers, Sequences, FiniteSets, TLC

\* ------------------------------------------------------------------ bounds
\* CURRENT_TIMESTAMP of SQLite is "YYYY-MM-DD HH:MM:SS": time is counted in
\* whole seconds, 0..MaxTime; several statements can run within one second.
MaxTime == 1
\* Number of upserts applied in one run of SpecRSVP.
MaxUpserts == 2
\* Number of HTTP requests the server accepts in one run of Spec.
MaxRequests == 3

\* ------------------------------------------------------- program constants
RSVPStatusAttending == "attending"
RSVPStatusNotAttending == "not_attending"
RSVPStatusMaybe == "maybe"
RSVPStatuses == {RSVPStatusAttending, RSVPStatusNotAttending, RSVPStatusMaybe}

\* --------------------------------------------------------------- the store
VARIABLES
    users,         \* table users: rows [id, email, password_hash]
    games,         \* table games: rows [id, gm_id]
    rsvps,         \* table rsvps: rows [id, user_id, game_id, status, created_at, updated_at]
    now,           \* the wall clock, in seconds
    last,          \* the read made by the last step and its result (NoCall after another step)
    submitOrder,   \* history: the (user, game) pairs, least recently submitted first
    submits,       \* history: the number of upserts applied for each (user, game) pair
    chat_messages, \* table chat_messages: rows [id, game_id, user_id, message_content, created_at]
    SessionStore,  \* handlers.SessionStore: session token -> user id (a bare Go map)
    uuids,         \* number of tokens uuid.NewRandom has returned
    cookies,       \* session tokens that clients have received in a Set-Cookie
    revoked,       \* history: tokens carried by a Logout that has been answered
    gor,           \* the goroutines serving requests: pc, request, locals, response
    crashed,       \* the Go runtime has aborted the process (fatal error)
    accepted       \* number of requests accepted so far

storeVars == <<users, games, rsvps, chat_messages>>
serverVars == <<chat_messages, SessionStore, uuids, cookies, revoked, gor, crashed, accepted>>
vars == <<users, games, rsvps, now, last, submitOrder, submits,
          chat_messages, SessionStore, uuids, cookies, revoked, gor, crashed, accepted>>

NoCall == [op |-> "none"]

\* Rows of a table that are the RSVP of one (user, game) pair.
RowsOf(rows, u, g) == {r \in rows : r.user_id = u /\ r.game_id = g}

\* INTEGER PRIMARY KEY AUTOINCREMENT: larger than every id in the table
\* (rows are never deleted).
NextId(rows) == IF rows = {} THEN 1 ELSE 1 + (CHOOSE m \in {r.id : r \in rows} : \A r \in rows : r.id <= m)

\* INSERT INTO rsvps ... VALUES (?, ?, ?, CURRENT_TIMESTAMP, CURRENT_TIMESTAMP): a new row.
InsertRSVP(rows, u, g, s, t) ==
    rows \cup {[id |-> NextId(rows), user_id |-> u, game_id |-> g, status |-> s,
                created_at |-> t, updated_at |-> t]}

\* Variant of UpdateRSVP: the update also sets created_at (INSERT OR REPLACE).
UpdateRSVPResetCreated(rows, u, g, s, t) ==
    {IF r.user_id = u /\ r.game_id = g
        THEN [r EXCEPT !.status = s, !.created_at = t, !.updated_at = t] ELSE r : r \in rows}

\* Variant of UpdateRSVP: the conflicting row keeps its status (only
\* updated_at is set).
UpdateRSVPKeepStatus(rows, u, g, s, t) ==
    {IF r.user_id = u /\ r.game_id = g THEN [r EXCEPT !.updated_at = t] ELSE r : r \in rows}

\* ON CONFLICT(user_id, game_id) DO UPDATE SET status = excluded.status,
\* updated_at = CURRENT_TIMESTAMP: the conflicting row, id and created_at kept.
UpdateRSVP(rows, u, g, s, t) ==
    {IF r.user_id = u /\ r.game_id = g
        THEN [r EXCEPT !.status = s, !.updated_at = t]
        ELSE r : r \in rows}

\* Variant of CreateOrUpdateRSVP: the conflict target is user_id alone, a user
\* who has a row gets it updated whatever its game.
CreateOrUpdateRSVPPerUser(rows, u, g, s, t) ==
    [rows |-> IF \E r \in rows : r.user_id = u
                THEN {IF r.user_id = u THEN [r EXCEPT !.status = s, !.updated_at = t] ELSE r :
                        r \in rows}
                ELSE InsertRSVP(rows, u, g, s, t),
     err |-> "nil"]

\* Variant of CreateOrUpdateRSVP: no UNIQUE (user_id, game_id), every call inserts.
CreateOrUpdateRSVPAlwaysInsert(rows, u, g, s, t) ==
    [rows |-> InsertRSVP(rows, u, g, s, t), err |-> "nil"]

\* Variant of CreateOrUpdateRSVP: a plain INSERT, which the UNIQUE constraint
\* rejects when the pair has a row.
CreateOrUpdateRSVPPlainInsert(rows, u, g, s, t) ==
    IF RowsOf(rows, u, g) = {}
        THEN [rows |-> InsertRSVP(rows, u, g, s, t), err |-> "nil"]
        ELSE [rows |-> rows, err |-> "UNIQUE constraint failed: rsvps.user_id, rsvps.game_id"]

\* CreateOrUpdateRSVP: the one INSERT ... ON CONFLICT statement, run at time t.
\* The schema's foreign keys are declared but SQLite does not enforce them
\* (no PRAGMA foreign_keys = ON), so u and g need not exist.
\* The result is the table after the statement and the error returned.
CreateOrUpdateRSVP(rows, u, g, s, t) ==
    IF RowsOf(rows, u, g) = {}
        THEN [rows |-> InsertRSVP(rows, u, g, s, t), err |-> "nil"]
        ELSE [rows |-> UpdateRSVP(rows, u, g, s, t), err |-> "nil"]

\* All orderings of a finite set as sequences.
Perms(S) ==
    {f \in [1..Cardinality(S) -> S] : \A i, j \in 1..Cardinality(S) : i # j => f[i] # f[j]}

\* Variant of JoinedRSVPs: the query has no WHERE r.game_id = ?.
JoinedRSVPsAllGames(rows, us, g) ==
    {[id |-> r.id, user_id |-> r.user_id, game_id |-> r.game_id, status |-> r.status,
      created_at |-> r.created_at, updated_at |-> r.updated_at, user_email |-> u.email] :
        <<r, u>> \in {x \in rows \X us : x[1].user_id = x[2].id}}

\* FROM rsvps r JOIN users u ON r.user_id = u.id WHERE r.game_id = ?: the
\* rows of the game whose user exists, each with the user's email.
JoinedRSVPs(rows, us, g) ==
    {[id |-> r.id, user_id |-> r.user_id, game_id |-> r.game_id, status |-> r.status,
      created_at |-> r.created_at, updated_at |-> r.updated_at, user_email |-> u.email] :
        <<r, u>> \in {x \in rows \X us : x[1].game_id = g /\ x[1].user_id = x[2].id}}

\* GetRSVPsForGame: the result sets the query may return. ORDER BY
\* r.updated_at DESC fixes the order of rows with different updated_at only;
\* rows with equal updated_at come in an order SQL leaves unspecified.
GetRSVPsForGame(rows, us, g) ==
    {f \in Perms(JoinedRSVPs(rows, us, g)) :
        \A i, j \in DOMAIN f : i < j => f[i].updated_at >= f[j].updated_at}

ErrNoRows == [err |-> "sql.ErrNoRows"]

\* Variant of GetRSVPByUserForGame: WHERE r.user_id = ? only, the game is
\* not part of the condition.
GetRSVPByUserForGameAnyGame(rows, us, u, g) ==
    LET found == {r \in UNION {JoinedRSVPs(rows, us, x.game_id) : x \in rows} : r.user_id = u}
    IN  IF found = {} THEN ErrNoRows
        ELSE [err |-> "nil", rsvp |-> CHOOSE r \in found : \A q \in found : r.id <= q.id]

\* GetRSVPByUserForGame: QueryRow + Scan: the first row of the join for the
\* pair, sql.ErrNoRows when there is none.
GetRSVPByUserForGame(rows, us, u, g) ==
    LET found == {r \in JoinedRSVPs(rows, us, g) : r.user_id = u}
    IN  IF found = {} THEN ErrNoRows
        ELSE [err |-> "nil", rsvp |-> CHOOSE r \in found : \A q \in found : r.id <= q.id]

\* bcrypt.GenerateFromPassword / VerifyPassword: a hash verifies exactly the
\* password it was generated from.
GenerateFromPassword(password) == <<"bcrypt", password>>
\* Variant of VerifyPassword: every password verifies.
VerifyPasswordAny(hashedPassword, password) == TRUE

VerifyPassword(hashedPassword, password) == hashedPassword = GenerateFromPassword(password)

\* ------------------------------------------------- users, games, chat
\* GetUserByEmail / GetUserByID: QueryRow + Scan, sql.ErrNoRows when no row matches.
GetUserByEmail(us, email) ==
    IF \E u \in us : u.email = email
        THEN [err |-> "nil", user |-> CHOOSE u \in us : u.email = email /\ \A q \in us : q.email = email => u.id <= q.id]
        ELSE ErrNoRows

GetUserByID(us, id) ==
    IF \E u \in us : u.id = id
        THEN [err |-> "nil", user |-> CHOOSE u \in us : u.id = id]
        ELSE ErrNoRows

\* Variant of CreateUser: the column email is not UNIQUE.
CreateUserNotUnique(us, email, password) ==
    [users |-> us \cup {[id |-> NextId(us), email |-> email,
                         password_hash |-> GenerateFromPassword(password)]},
     err |-> "nil"]

\* CreateUser: INSERT INTO users(email, password_hash); the column email is
\* UNIQUE, so the statement fails when the email is already in the table.
CreateUser(us, email, password) ==
    IF \E u \in us : u.email = email
        THEN [users |-> us, err |-> "UNIQUE constraint failed: users.email"]
        ELSE [users |-> us \cup {[id |-> NextId(us), email |-> email,
                                  password_hash |-> GenerateFromPassword(password)]},
              err |-> "nil"]

\* CreateGame: INSERT INTO games(gm_id, ...); the new row's id.
CreateGame(gs, gm) == gs \cup {[id |-> NextId(gs), gm_id |-> gm]}

GetGameByID(gs, id) ==
    IF \E x \in gs : x.id = id
        THEN [err |-> "nil", game |-> CHOOSE x \in gs : x.id = id]
        ELSE ErrNoRows

\* Variant of CreateChatMessage: the insert reuses the id 1 and replaces the
\* message that has it.
CreateChatMessageReplace(ms, g, u, content, t) ==
    {m \in ms : m.id # 1} \cup {[id |-> 1, game_id |-> g, user_id |-> u,
                                  message_content |-> content, created_at |-> t]}

\* CreateChatMessage: INSERT INTO chat_messages(game_id, user_id, message_content);
\* created_at defaults to CURRENT_TIMESTAMP. Foreign keys are not enforced.
CreateChatMessage(ms, g, u, content, t) ==
    ms \cup {[id |-> NextId(ms), game_id |-> g, user_id |-> u,
              message_content |-> content, created_at |-> t]}

\* GetChatMessagesForGame: JOIN users, WHERE cm.game_id = ?, ORDER BY
\* cm.created_at ASC; the order of messages of the same second is unspecified.
GetChatMessagesForGame(ms, us, g) ==
    LET joined == {m \in ms : m.game_id = g /\ \E u \in us : u.id = m.user_id}
    IN  {f \in Perms(joined) : \A i, j \in DOMAIN f : i < j => f[i].created_at <= f[j].created_at}

\* strings.TrimSpace on the contents the model submits.
Whitespace == {"", " ", "  "}
\* Variant of TrimSpace: nothing is trimmed.
TrimSpaceNothing(c) == c

TrimSpace(c) == IF c \in Whitespace THEN "" ELSE c

\* ------------------------------------------------ inputs of the data layer
Emails == {"a@x.com", "b@x.com"}
GameIdInputs == {1, 2}

\* A store as the tests of rsvps_db.go set it up (createTestUserForRSVPs,
\* createTestGameForRSVPs): two users, one game hosted by the first.
SeedUsers ==
    {[id |-> 1, email |-> "a@x.com", password_hash |-> GenerateFromPassword("pw1")],
     [id |-> 2, email |-> "b@x.com", password_hash |-> GenerateFromPassword("pw1")]}
SeedGames == {[id |-> 1, gm_id |-> 1]}

\* History of submissions: one more upsert applied for pair x.
Count(f, x) ==
    [y \in DOMAIN f \cup {x} |-> IF y = x THEN (IF x \in DOMAIN f THEN f[x] + 1 ELSE 1) ELSE f[y]]

\* History of submissions: the pair moves to the end (most recent).
MoveToEnd(seq, x) == SelectSeq(seq, LAMBDA y : y # x) \o <<x>>

\* Number of upserts applied so far, over all pairs.
RECURSIVE Total(_, _)
Total(f, S) == IF S = {} THEN 0 ELSE LET x == CHOOSE y \in S : TRUE IN f[x] + Total(f, S \ {x})

\* --------------------------------------------------- the server's own state
Procs == {1, 2}
NoCookie == 0
NoReq == [kind |-> "none"]
Idle == [pc |-> "idle", req |-> NoReq, user |-> 0, raced |-> FALSE]

\* The process starts with an empty SessionStore (auth_handlers.go:16) and no
\* request in flight.
InitServer ==
    /\ chat_messages = {}
    /\ SessionStore = [t \in {} |-> 0]
    /\ uuids = 0
    /\ cookies = {}
    /\ revoked = {}
    /\ gor = [p \in Procs |-> Idle]
    /\ crashed = FALSE
    /\ accepted = 0

\* ------------------------------------------ SpecRSVP: the data-access layer
InitRSVP ==
    /\ users = SeedUsers
    /\ games = SeedGames
    /\ rsvps = {}
    /\ now = 0
    /\ last = NoCall
    /\ submitOrder = << >>
    /\ submits = [x \in {} |-> 0]
    /\ InitServer

\* Time passes: the next statement sees a later CURRENT_TIMESTAMP.
Tick ==
    /\ ~crashed
    /\ now < MaxTime
    /\ now' = now + 1
    /\ last' = NoCall
    /\ UNCHANGED <<users, games, rsvps, submitOrder, submits, serverVars>>

\* A call of database.CreateOrUpdateRSVP(db, &RSVP{UserID: u, GameID: g, Status: s}).
DBCreateOrUpdateRSVP(u, g, s) ==
    LET res == CreateOrUpdateRSVP(rsvps, u, g, s, now)
    IN  /\ Total(submits, DOMAIN submits) < MaxUpserts
        /\ rsvps' = res.rows
        /\ last' = NoCall
        /\ submitOrder' = IF res.err = "nil" THEN MoveToEnd(submitOrder, <<u, g>>) ELSE submitOrder
        /\ submits' = IF res.err = "nil" THEN Count(submits, <<u, g>>) ELSE submits
        /\ UNCHANGED <<users, games, now, serverVars>>

\* A call of database.GetRSVPsForGame(db, g).
DBGetRSVPsForGame(g) ==
    /\ \E f \in GetRSVPsForGame(rsvps, users, g) :
            last' = [op |-> "list", game_id |-> g, result |-> f]
    /\ UNCHANGED <<users, games, rsvps, now, submitOrder, submits, serverVars>>

\* A call of database.GetRSVPByUserForGame(db, u, g).
DBGetRSVPByUserForGame(u, g) ==
    /\ last' = [op |-> "get", user_id |-> u, game_id |-> g,
                result |-> GetRSVPByUserForGame(rsvps, users, u, g)]
    /\ UNCHANGED <<users, games, rsvps, now, submitOrder, submits, serverVars>>

NextRSVP ==
    \/ Tick
    \/ \E u \in {x.id : x \in users}, g \in GameIdInputs, s \in RSVPStatuses :
            DBCreateOrUpdateRSVP(u, g, s)
    \/ \E g \in GameIdInputs : DBGetRSVPsForGame(g)
    \/ \E u \in {x.id : x \in users}, g \in GameIdInputs : DBGetRSVPByUserForGame(u, g)

SpecRSVP == InitRSVP /\ [][NextRSVP]_vars

\* ================================================= Spec: the HTTP server
\* net/http runs every request's handler on a goroutine of its own. A step of
\* a handler is one statement on shared state: one SQL statement (SQLite runs
\* it atomically), or the beginning or the end of one access to the map
\* SessionStore. The map is a bare Go map used without any lock: an access
\* takes time, and an access that overlaps a write by another goroutine is a
\* data race. The Go runtime may then abort the process ("fatal error:
\* concurrent map writes", "concurrent map read and map write"); when it does
\* not, a racing lookup may see any slot of the map (another entry's value,
\* the zero value, or no entry) and a racing write may be lost.

\* ---- responses
Redirect(to) == [code |-> 303, kind |-> "redirect", detail |-> to]
Render(template, error) == [code |-> 200, kind |-> template, detail |-> error]
\* RenderTemplate with the rows the handler read in the template's data.
RenderData(template, error, data) ==
    [code |-> 200, kind |-> template, detail |-> error, data |-> data]
HttpError(code, msg) == [code |-> code, kind |-> "error", detail |-> msg]
HxRedirect(to) == [code |-> 200, kind |-> "hx-redirect", detail |-> to]
\* w.Header().Set("HX-Redirect", "/login"); http.Error(w, "User not authenticated", 401)
Unauthenticated ==
    [code |-> 401, kind |-> "error", detail |-> "User not authenticated", hx_redirect |-> "/login"]

\* ---- requests
Request(kind, cookie, email, password, confirm, game_id, status, content, form) ==
    [kind |-> kind, cookie |-> cookie, email |-> email, password |-> password,
     confirm |-> confirm, game_id |-> game_id, status |-> status,
     content |-> content, form |-> form]

\* A cookie value no login has issued.
Forged == -1
RegisterInputs ==
    {<<"a@x.com", "pw1", "pw1">>, <<"b@x.com", "pw1", "pw1">>,
     <<"", "pw1", "pw1">>, <<"a@x.com", "pw1", "pw2">>}
LoginInputs == {<<"a@x.com", "pw1">>, <<"b@x.com", "pw1">>, <<"a@x.com", "bad">>, <<"", "pw1">>}
CookieInputs == {NoCookie, Forged} \cup cookies
StatusInputs == RSVPStatuses \cup {"bogus"}
ContentInputs == {"hi", "  "}
FormInputs == {"valid", "no_title", "bad_date"}

\* ---- the session registry
ReadPcs == {"auth_lookup", "cur_lookup"}
WritePcs == {"login_store", "logout_delete"}
Readers(p) == {q \in Procs \ {p} : gor[q].pc \in ReadPcs}
Writers(p) == {q \in Procs \ {p} : gor[q].pc \in WritePcs}

Range(f) == {f[x] : x \in DOMAIN f}

\* v, ok := SessionStore[token]
Lookup(store, token) ==
    IF token \in DOMAIN store THEN [ok |-> TRUE, userID |-> store[token]]
    ELSE [ok |-> FALSE, userID |-> 0]

\* What a lookup can return: the entry, when no write overlapped it.
LookupResults(store, token, raced) ==
    IF raced
        THEN {Lookup(store, token), [ok |-> FALSE, userID |-> 0]}
                \cup {[ok |-> TRUE, userID |-> u] : u \in Range(store) \cup {0}}
        ELSE {Lookup(store, token)}

\* Variant of MapAssign: the entry is made for the id after the user's.
MapAssignNext(store, token, userID) ==
    [t \in DOMAIN store \cup {token} |-> IF t = token THEN userID + 1 ELSE store[t]]

\* Variant of MapAssign: the id of the zero-value user is stored.
MapAssignZero(store, token, userID) ==
    [t \in DOMAIN store \cup {token} |-> IF t = token THEN 0 ELSE store[t]]

\* SessionStore[token] = userID
MapAssign(store, token, userID) ==
    [t \in DOMAIN store \cup {token} |-> IF t = token THEN userID ELSE store[t]]

\* delete(SessionStore, token): a no-op when the token is not a key.
MapDelete(store, token) == [t \in DOMAIN store \ {token} |-> store[t]]

\* What a write can leave: its effect, when no write overlapped it.
WriteResults(store, written, raced) == IF raced THEN {written, store} ELSE {written}

\* uuid.NewRandom(): 122 random bits. Modelled as a value that was never
\* returned before (the n-th call returns n): collisions are not modelled.
NewRandom(n) == n + 1

\* The outcome of a step that answers nothing: the goroutines after it.
Step(g) == [gor |-> g, last |-> NoCall]

\* Goroutine p begins a lookup: it races if a write is in progress.
BeginRead(p, pc, req, user) ==
    Step([gor EXCEPT ![p] = [pc |-> pc, req |-> req, user |-> user,
                             raced |-> Writers(p) # {}]])

\* Goroutine p begins a write: it races with the writes in progress, and
\* every access in progress races with it.
BeginWrite(p, pc, req, user) ==
    Step([q \in Procs |->
            IF q = p THEN [pc |-> pc, req |-> req, user |-> user, raced |-> Writers(p) # {}]
            ELSE IF q \in Readers(p) \cup Writers(p) THEN [gor[q] EXCEPT !.raced = TRUE]
            ELSE gor[q]])

\* What a step of goroutine p does to the goroutines and to `last`: it goes
\* on to another statement, or it answers the request and returns; `last`
\* then holds the request, the user it ran as and the response.
Goto(p, pc) == Step([gor EXCEPT ![p].pc = pc, ![p].raced = FALSE])
GotoAs(p, pc, user) == Step([gor EXCEPT ![p].pc = pc, ![p].user = user, ![p].raced = FALSE])
AnswerNew(p, req, resp) ==
    [gor |-> [gor EXCEPT ![p] = Idle],
     last |-> [op |-> "answer", req |-> req, user |-> gor[p].user, resp |-> resp]]
Answer(p, resp) == AnswerNew(p, gor[p].req, resp)

Do(x) == gor' = x.gor /\ last' = x.last

\* A request is accepted by an idle goroutine.
\* Goroutines are anonymous: the first idle one of the model takes it.
CanAccept(p) ==
    /\ ~crashed
    /\ gor[p].pc = "idle"
    /\ accepted < MaxRequests
    /\ \A q \in Procs : gor[q].pc = "idle" => q >= p
Running(p, pc) == ~crashed /\ gor[p].pc = pc

\* The runtime detects the data race and aborts the process: its goroutines
\* and its SessionStore are gone, the database file stays.
FatalError(p) ==
    /\ ~crashed
    /\ gor[p].pc \in ReadPcs \cup WritePcs
    /\ gor[p].raced
    /\ crashed' = TRUE
    /\ gor' = [q \in Procs |-> Idle]
    /\ SessionStore' = [t \in {} |-> 0]
    /\ last' = NoCall
    /\ UNCHANGED <<users, games, rsvps, now, submitOrder, submits, chat_messages,
                   uuids, cookies, revoked, accepted>>

\* ---- POST /register (Register, auth_handlers.go:28)
Register_Validate(p, email, password, confirm) ==
    LET req == Request("register", NoCookie, email, password, confirm, 0, "", "", "")
    IN  /\ CanAccept(p)
        /\ accepted' = accepted + 1
        /\ Do(IF email = "" \/ password = ""
                    THEN AnswerNew(p, req, Render("auth/register.html", "Email and password are required."))
                  ELSE IF password # confirm
                    THEN AnswerNew(p, req, Render("auth/register.html", "Passwords do not match."))
                  ELSE Step([gor EXCEPT ![p] = [pc |-> "reg_check", req |-> req, user |-> 0, raced |-> FALSE]]))
        /\ UNCHANGED <<users, games, rsvps, now, submitOrder, submits, chat_messages, SessionStore,
                       uuids, cookies, revoked, crashed>>

\* database.GetUserByEmail: is the email registered already?
Register_GetUserByEmail(p) ==
    /\ Running(p, "reg_check")
    /\ Do(IF GetUserByEmail(users, gor[p].req.email).err = "nil"
                THEN Answer(p, Render("auth/register.html", "Email already registered."))
                ELSE Goto(p, "reg_create"))
    /\ UNCHANGED <<users, games, rsvps, now, submitOrder, submits, chat_messages, SessionStore,
                   uuids, cookies, revoked, crashed, accepted>>

\* database.CreateUser, then the redirect to /login or the 500.
Register_CreateUser(p) ==
    LET res == CreateUser(users, gor[p].req.email, gor[p].req.password)
    IN  /\ Running(p, "reg_create")
        /\ users' = res.users
        /\ Do(IF res.err # "nil"
                    THEN Answer(p, HttpError(500, "Could not create user"))
                    ELSE Answer(p, Redirect("/login")))
        /\ UNCHANGED <<games, rsvps, now, submitOrder, submits, chat_messages, SessionStore,
                       uuids, cookies, revoked, crashed, accepted>>

\* ---- POST /login (Login, auth_handlers.go:100)
Login_Validate(p, email, password) ==
    LET req == Request("login", NoCookie, email, password, "", 0, "", "", "")
    IN  /\ CanAccept(p)
        /\ accepted' = accepted + 1
        /\ Do(IF email = "" \/ password = ""
                    THEN AnswerNew(p, req, Render("auth/login.html", "Email and password are required."))
                    ELSE Step([gor EXCEPT ![p] = [pc |-> "login_check", req |-> req, user |-> 0, raced |-> FALSE]]))
        /\ UNCHANGED <<users, games, rsvps, now, submitOrder, submits, chat_messages, SessionStore,
                       uuids, cookies, revoked, crashed>>

\* database.GetUserByEmail and VerifyPassword; on success uuid.NewRandom and
\* the beginning of SessionStore[sessionToken] = user.ID. The token is kept
\* in req.cookie, the user's id in user.
Login_GetUserByEmail(p) ==
    LET found == GetUserByEmail(users, gor[p].req.email)
        token == NewRandom(uuids)
    IN  /\ Running(p, "login_check")
        /\ IF found.err = "nil" /\ VerifyPassword(found.user.password_hash, gor[p].req.password)
             THEN /\ uuids' = token
                  /\ Do(BeginWrite(p, "login_store", [gor[p].req EXCEPT !.cookie = token],
                                  found.user.id))
             ELSE /\ uuids' = uuids
                  /\ Do(Answer(p, Render("auth/login.html", "Invalid email or password.")))
        /\ UNCHANGED <<users, games, rsvps, now, submitOrder, submits, chat_messages, SessionStore,
                       cookies, revoked, crashed, accepted>>

\* The end of SessionStore[sessionToken] = user.ID, http.SetCookie and the
\* redirect to /games.
Login_Store(p) ==
    /\ Running(p, "login_store")
    /\ SessionStore' \in WriteResults(SessionStore,
                            MapAssign(SessionStore, gor[p].req.cookie, gor[p].user), gor[p].raced)
    /\ cookies' = cookies \cup {gor[p].req.cookie}
    /\ Do(Answer(p, Redirect("/games")))
    /\ UNCHANGED <<users, games, rsvps, now, submitOrder, submits, chat_messages,
                   uuids, revoked, crashed, accepted>>

\* ---- POST /logout (Logout, auth_handlers.go:168)
\* Without a session cookie: the redirect alone. With one: the beginning of
\* delete(SessionStore, sessionToken). The delete returns at once, without
\* writing, when the map is empty and no write is in progress; the handler
\* then expires the cookie and redirects.
Logout_Begin(p, cookie) ==
    LET req == Request("logout", cookie, "", "", "", 0, "", "", "")
        empty == DOMAIN SessionStore = {} /\ Writers(p) = {}
    IN  /\ CanAccept(p)
        /\ accepted' = accepted + 1
        /\ Do(IF cookie = NoCookie \/ empty
                    THEN AnswerNew(p, req, Redirect("/login"))
                    ELSE BeginWrite(p, "logout_delete", req, 0))
        /\ revoked' = IF cookie # NoCookie /\ empty THEN revoked \cup {cookie} ELSE revoked
        /\ UNCHANGED <<users, games, rsvps, now, submitOrder, submits, chat_messages, SessionStore,
                       uuids, cookies, crashed>>

\* The end of the delete, the expired cookie and the redirect to /login.
Logout_Delete(p) ==
    /\ Running(p, "logout_delete")
    /\ SessionStore' \in WriteResults(SessionStore,
                            MapDelete(SessionStore, gor[p].req.cookie), gor[p].raced)
    /\ revoked' = revoked \cup {gor[p].req.cookie}
    /\ Do(Answer(p, Redirect("/login")))
    /\ UNCHANGED <<users, games, rsvps, now, submitOrder, submits, chat_messages,
                   uuids, cookies, crashed, accepted>>

\* ---- AuthMiddleware (auth_handlers.go:190) around a protected handler
\* IsAuthenticated: without a session cookie the redirect to /login; with
\* one, the beginning of the lookup SessionStore[sessionToken].
AuthMiddleware_Begin(p, req) ==
    /\ CanAccept(p)
    /\ accepted' = accepted + 1
    /\ Do(IF req.cookie = NoCookie
                THEN AnswerNew(p, req, Redirect("/login"))
                ELSE BeginRead(p, "auth_lookup", req, 0))
    /\ UNCHANGED <<users, games, rsvps, now, submitOrder, submits, chat_messages, SessionStore,
                   uuids, cookies, revoked, crashed>>

\* The end of the lookup: next.ServeHTTP when the token was found, the
\* redirect to /login when not.
AuthMiddleware_Check(p) ==
    /\ Running(p, "auth_lookup")
    /\ \E found \in LookupResults(SessionStore, gor[p].req.cookie, gor[p].raced) :
            Do(IF found.ok THEN Goto(p, "next") ELSE Answer(p, Redirect("/login")))
    /\ UNCHANGED <<users, games, rsvps, now, submitOrder, submits, chat_messages, SessionStore,
                   uuids, cookies, revoked, crashed, accepted>>

ProtectedRequests ==
    {Request("rsvp", c, "", "", "", g, s, "", "") :
        c \in CookieInputs, g \in GameIdInputs, s \in StatusInputs}
    \cup {Request("chat", c, "", "", "", g, "", m, "") :
        c \in CookieInputs, g \in GameIdInputs, m \in ContentInputs}
    \cup {Request("create_game", c, "", "", "", 0, "", "", f) :
        c \in CookieInputs, f \in FormInputs}
    \cup {Request("new_game_page", c, "", "", "", 0, "", "", "") : c \in CookieInputs}

\* ---- GET /games/new (CreateGamePage): the form.
CreateGamePage(p) ==
    /\ Running(p, "next")
    /\ gor[p].req.kind = "new_game_page"
    /\ Do(Answer(p, Render("games/new_game.html", "")))
    /\ UNCHANGED <<users, games, rsvps, now, submitOrder, submits, chat_messages, SessionStore,
                   uuids, cookies, revoked, crashed, accepted>>

\* ---- GetCurrentUser (auth_handlers.go:217), called first by SubmitRSVP and
\* PostChatMessage and after the form's validation by CreateGame: the
\* beginning of the lookup SessionStore[sessionToken].
ValidGameForm(f) == f = "valid"

GetCurrentUser_Begin(p) ==
    /\ Running(p, "next")
    /\ gor[p].req.kind \in {"rsvp", "chat", "create_game"}
    /\ Do(IF gor[p].req.kind = "create_game" /\ ~ValidGameForm(gor[p].req.form)
                THEN Answer(p, Render("games/new_game.html",
                        IF gor[p].req.form = "no_title"
                            THEN "Title, Game Date/Time, and Location are required."
                            ELSE "Invalid date/time format. Use YYYY-MM-DDTHH:MM."))
                ELSE BeginRead(p, "cur_lookup", gor[p].req, 0))
    /\ UNCHANGED <<users, games, rsvps, now, submitOrder, submits, chat_messages, SessionStore,
                   uuids, cookies, revoked, crashed, accepted>>

\* GetCurrentUser's result: the end of the lookup and database.GetUserByID.
CurrentUsers(p) ==
    {IF found.ok THEN GetUserByID(users, found.userID) ELSE [err |-> "invalid session token"] :
        found \in LookupResults(SessionStore, gor[p].req.cookie, gor[p].raced)}

\* ---- POST /games/{id}/rsvp (SubmitRSVP, rsvp_handlers.go:17)
\* Variant of ValidStatus: the handler does not validate the status.
ValidStatusAny(status) == TRUE

\* switch status { case RSVPStatusAttending, RSVPStatusNotAttending, RSVPStatusMaybe: }
ValidStatus(status) == status \in RSVPStatuses

\* GetCurrentUser returns; then the status is validated.
SubmitRSVP_GetCurrentUser(p) ==
    /\ Running(p, "cur_lookup")
    /\ gor[p].req.kind = "rsvp"
    /\ \E cur \in CurrentUsers(p) :
            Do(IF cur.err # "nil"
                     THEN Answer(p, Unauthenticated)
                   ELSE IF ~ValidStatus(gor[p].req.status)
                     THEN Answer(p, HttpError(400, "Invalid RSVP status value"))
                   ELSE GotoAs(p, "rsvp_upsert", cur.user.id))
    /\ UNCHANGED <<users, games, rsvps, now, submitOrder, submits, chat_messages, SessionStore,
                   uuids, cookies, revoked, crashed, accepted>>

\* database.CreateOrUpdateRSVP. The goroutine remembers in seq how many
\* submissions of the pair were applied up to its own (history, not program
\* state).
SubmitRSVP_Upsert(p) ==
    LET u == gor[p].user
        g == gor[p].req.game_id
        res == CreateOrUpdateRSVP(rsvps, u, g, gor[p].req.status, now)
    IN  /\ Running(p, "rsvp_upsert")
        /\ rsvps' = res.rows
        /\ submitOrder' = IF res.err = "nil" THEN MoveToEnd(submitOrder, <<u, g>>) ELSE submitOrder
        /\ submits' = IF res.err = "nil" THEN Count(submits, <<u, g>>) ELSE submits
        /\ Do(IF res.err # "nil"
                    THEN Answer(p, HttpError(500, "Failed to update RSVP status. Please try again."))
                    ELSE Step([gor EXCEPT ![p] = [pc |-> "rsvp_render", req |-> gor[p].req,
                                                  user |-> u, raced |-> FALSE,
                                                  seq |-> Count(submits, <<u, g>>)[<<u, g>>]]]))
        /\ UNCHANGED <<users, games, now, chat_messages, SessionStore,
                       uuids, cookies, revoked, crashed, accepted>>

\* database.GetRSVPsForGame, database.GetRSVPByUserForGame (sql.ErrNoRows is
\* not an error there) and database.GetGameByID, then the partial
\* games/_rsvp_section.html, or the 500 when the game does not exist.
SubmitRSVP_Render(p) ==
    /\ Running(p, "rsvp_render")
    /\ \E allGameRSVPs \in GetRSVPsForGame(rsvps, users, gor[p].req.game_id) :
         LET currentUserRSVP == GetRSVPByUserForGame(rsvps, users, gor[p].user, gor[p].req.game_id)
         IN  Do(IF GetGameByID(games, gor[p].req.game_id).err # "nil"
                    THEN Answer(p, HttpError(500, "Failed to load game context for RSVP."))
                    ELSE Answer(p, RenderData("games/_rsvp_section.html", "",
                                    [CurrentUserRSVP |-> currentUserRSVP,
                                     AllGameRSVPs |-> allGameRSVPs])))
    /\ UNCHANGED <<users, games, rsvps, now, submitOrder, submits, chat_messages, SessionStore,
                   uuids, cookies, revoked, crashed, accepted>>

\* ---- POST /games/{id}/chat (PostChatMessage, chat_handlers.go:16)
PostChatMessage_GetCurrentUser(p) ==
    /\ Running(p, "cur_lookup")
    /\ gor[p].req.kind = "chat"
    /\ \E cur \in CurrentUsers(p) :
            Do(IF cur.err # "nil"
                     THEN Answer(p, Unauthenticated)
                   ELSE GotoAs(p, IF TrimSpace(gor[p].req.content) = "" THEN "chat_empty" ELSE "chat_create",
                               cur.user.id))
    /\ UNCHANGED <<users, games, rsvps, now, submitOrder, submits, chat_messages, SessionStore,
                   uuids, cookies, revoked, crashed, accepted>>

\* Empty content: database.GetChatMessagesForGame and the partial with the
\* messages and the error.
PostChatMessage_Empty(p) ==
    /\ Running(p, "chat_empty")
    /\ \E chatMessages \in GetChatMessagesForGame(chat_messages, users, gor[p].req.game_id) :
            Do(Answer(p, RenderData("games/_chat_messages.html",
                                    "Message content cannot be empty.", chatMessages)))
    /\ UNCHANGED <<users, games, rsvps, now, submitOrder, submits, chat_messages, SessionStore,
                   uuids, cookies, revoked, crashed, accepted>>

\* database.CreateChatMessage.
PostChatMessage_Create(p) ==
    /\ Running(p, "chat_create")
    /\ chat_messages' = CreateChatMessage(chat_messages, gor[p].req.game_id, gor[p].user,
                                          gor[p].req.content, now)
    /\ Do(Goto(p, "chat_render"))
    /\ UNCHANGED <<users, games, rsvps, now, submitOrder, submits, SessionStore,
                   uuids, cookies, revoked, crashed, accepted>>

\* database.GetChatMessagesForGame, then the partial games/_chat_messages.html
\* with the messages.
PostChatMessage_Render(p) ==
    /\ Running(p, "chat_render")
    /\ \E updatedChatMessages \in GetChatMessagesForGame(chat_messages, users, gor[p].req.game_id) :
            Do(Answer(p, RenderData("games/_chat_messages.html", "", updatedChatMessages)))
    /\ UNCHANGED <<users, games, rsvps, now, submitOrder, submits, chat_messages, SessionStore,
                   uuids, cookies, revoked, crashed, accepted>>

\* ---- POST /games/new (CreateGame, the handler)
CreateGame_GetCurrentUser(p) ==
    /\ Running(p, "cur_lookup")
    /\ gor[p].req.kind = "create_game"
    /\ \E cur \in CurrentUsers(p) :
            Do(IF cur.err # "nil"
                     THEN Answer(p, HttpError(401, "User not authenticated: " \o cur.err))
                     ELSE GotoAs(p, "game_create", cur.user.id))
    /\ UNCHANGED <<users, games, rsvps, now, submitOrder, submits, chat_messages, SessionStore,
                   uuids, cookies, revoked, crashed, accepted>>

\* database.CreateGame, then the HX-Redirect header to the game's page.
CreateGame_Insert(p) ==
    /\ Running(p, "game_create")
    /\ games' = CreateGame(games, gor[p].user)
    /\ Do(Answer(p, HxRedirect("/games/{id}")))
    /\ UNCHANGED <<users, rsvps, now, submitOrder, submits, chat_messages, SessionStore,
                   uuids, cookies, revoked, crashed, accepted>>

\* ---- GET /games/{id} (GameDetailPage, open to everybody)
\* database.GetGameByID: 404 when the game does not exist. Then
\* GetCurrentUser, whose error is ignored: without a session cookie the user
\* is nil, with one the lookup SessionStore[sessionToken] begins.
GameDetailPage_Begin(p, cookie, g) ==
    LET req == Request("game_detail", cookie, "", "", "", g, "", "", "")
    IN  /\ CanAccept(p)
        /\ accepted' = accepted + 1
        /\ Do(IF GetGameByID(games, g).err # "nil"
                    THEN AnswerNew(p, req, HttpError(404, "Game not found"))
                 ELSE IF cookie = NoCookie
                    THEN Step([gor EXCEPT ![p] = [pc |-> "detail_render", req |-> req,
                                                  user |-> 0, raced |-> FALSE]])
                 ELSE BeginRead(p, "cur_lookup", req, 0))
        /\ UNCHANGED <<users, games, rsvps, now, submitOrder, submits, chat_messages, SessionStore,
                       uuids, cookies, revoked, crashed>>

\* GetCurrentUser returns: the user, or nil (user 0) on any error.
GameDetailPage_GetCurrentUser(p) ==
    /\ Running(p, "cur_lookup")
    /\ gor[p].req.kind = "game_detail"
    /\ \E cur \in CurrentUsers(p) :
            Do(GotoAs(p, "detail_render", IF cur.err # "nil" THEN 0 ELSE cur.user.id))
    /\ UNCHANGED <<users, games, rsvps, now, submitOrder, submits, chat_messages, SessionStore,
                   uuids, cookies, revoked, crashed, accepted>>

\* database.GetRSVPsForGame, for a user database.GetRSVPByUserForGame
\* (sql.ErrNoRows leaves currentUserRSVP nil), database.GetChatMessagesForGame,
\* then the page games/game_detail.html.
GameDetailPage_Render(p) ==
    /\ Running(p, "detail_render")
    /\ \E allGameRSVPs \in GetRSVPsForGame(rsvps, users, gor[p].req.game_id),
          chatMessages \in GetChatMessagesForGame(chat_messages, users, gor[p].req.game_id) :
         LET currentUserRSVP ==
                IF gor[p].user = 0 THEN ErrNoRows
                ELSE GetRSVPByUserForGame(rsvps, users, gor[p].user, gor[p].req.game_id)
         IN  Do(Answer(p, RenderData("games/game_detail.html", "",
                            [CurrentUserRSVP |-> currentUserRSVP,
                             AllGameRSVPs |-> allGameRSVPs,
                             ChatMessages |-> chatMessages])))
    /\ UNCHANGED <<users, games, rsvps, now, submitOrder, submits, chat_messages, SessionStore,
                   uuids, cookies, revoked, crashed, accepted>>

\* ---- the server
\* The database file scheduler.db outlives the process (InitDB only creates
\* the tables that are missing): a run starts on an empty store or on one
\* that earlier runs have filled. SessionStore always starts empty.
InitStores == {[users |-> {}, games |-> {}], [users |-> SeedUsers, games |-> SeedGames]}

Init ==
    /\ \E st \in InitStores : users = st.users /\ games = st.games
    /\ rsvps = {}
    /\ now = 0
    /\ last = NoCall
    /\ submitOrder = << >>
    /\ submits = [x \in {} |-> 0]
    /\ InitServer

Next ==
    \/ Tick
    \/ \E p \in Procs :
        \/ FatalError(p)
        \/ \E r \in RegisterInputs : Register_Validate(p, r[1], r[2], r[3])
        \/ Register_GetUserByEmail(p)
        \/ Register_CreateUser(p)
        \/ \E r \in LoginInputs : Login_Validate(p, r[1], r[2])
        \/ Login_GetUserByEmail(p)
        \/ Login_Store(p)
        \/ \E c \in CookieInputs : Logout_Begin(p, c)
        \/ Logout_Delete(p)
        \/ \E r \in ProtectedRequests : AuthMiddleware_Begin(p, r)
        \/ AuthMiddleware_Check(p)
        \/ CreateGamePage(p)
        \/ GetCurrentUser_Begin(p)
        \/ SubmitRSVP_GetCurrentUser(p)
        \/ SubmitRSVP_Upsert(p)
        \/ SubmitRSVP_Render(p)
        \/ PostChatMessage_GetCurrentUser(p)
        \/ PostChatMessage_Empty(p)
        \/ PostChatMessage_Create(p)
        \/ PostChatMessage_Render(p)
        \/ \E c \in CookieInputs, g \in GameIdInputs : GameDetailPage_Begin(p, c, g)
        \/ GameDetailPage_GetCurrentUser(p)
        \/ GameDetailPage_Render(p)
        \/ CreateGame_GetCurrentUser(p)
        \/ CreateGame_Insert(p)

Spec == Init /\ [][Next]_vars

\* ================================================================ claims
UserIds == {u.id : u \in users}

\* C1: in every reachable state of the server there is at most one RSVP row
\* for each (user, game) pair, whatever submissions ran and however they
\* interleaved.
C1_OneRowPerPair ==
    \A r1, r2 \in rsvps : (r1.user_id = r2.user_id /\ r1.game_id = r2.game_id) => r1 = r2

\* A pair that was submitted at least twice and has its single row.
C1_Witness ==
    \E x \in DOMAIN submits : submits[x] >= 2 /\ Cardinality(RowsOf(rsvps, x[1], x[2])) = 1

\* C2: every call of CreateOrUpdateRSVP for (u, g) with status s leaves s as
\* the stored status of the pair (what GetRSVPByUserForGame returns), and the
\* row's updated_at is not smaller than it was before the call.
C2_LastWriteWins ==
    [][\A u \in UserIds, g \in GameIdInputs, s \in RSVPStatuses :
          DBCreateOrUpdateRSVP(u, g, s) =>
            /\ GetRSVPByUserForGame(rsvps', users', u, g).err = "nil"
            /\ GetRSVPByUserForGame(rsvps', users', u, g).rsvp.status = s
            /\ \A old \in RowsOf(rsvps, u, g), new \in RowsOf(rsvps', u, g) :
                    new.updated_at >= old.updated_at]_vars

\* A pair submitted twice, the second time in a later second.
C2_Witness ==
    \E x \in DOMAIN submits :
        /\ submits[x] >= 2
        /\ \E r \in RowsOf(rsvps, x[1], x[2]) : r.updated_at > r.created_at

\* C3: the upsert of SubmitRSVP is one atomic step that cannot fail on the
\* pair's uniqueness: whenever a goroutine of the server runs it, also while
\* another submission for the same pair is in flight, the step returns no
\* error and leaves exactly one row for the pair, with the status this
\* request submitted.
C3_AtomicUpsert ==
    [][\A p \in Procs :
          (gor[p].pc = "rsvp_upsert" /\ gor'[p].pc # "rsvp_upsert" /\ ~crashed') =>
            /\ gor'[p].pc = "rsvp_render"
            /\ \E r \in rsvps' :
                /\ RowsOf(rsvps', gor[p].user, gor[p].req.game_id) = {r}
                /\ r.status = gor[p].req.status]_vars

\* Two submissions of one user for one game with different statuses in
\* flight at once, both upserts applied.
C3_Witness ==
    /\ gor[1].pc = "rsvp_render" /\ gor[2].pc = "rsvp_render"
    /\ gor[1].user = gor[2].user
    /\ gor[1].req.game_id = gor[2].req.game_id
    /\ gor[1].req.status # gor[2].req.status
    /\ Cardinality(RowsOf(rsvps, gor[1].user, gor[1].req.game_id)) = 1

\* C4: no write to SessionStore overlaps another access to it.
C4_MutualExclusion ==
    \A p, q \in Procs :
        p # q => ~(gor[p].pc \in WritePcs /\ gor[q].pc \in ReadPcs \cup WritePcs)

\* C5: AuthMiddleware invokes the wrapped handler if and only if the
\* request's cookie is a key of SessionStore when it is checked; otherwise
\* the answer is the redirect to /login and nothing is created or changed.
C5_GateIffSessionKey ==
    [][\A p \in Procs :
          (gor[p].pc = "auth_lookup" /\ gor'[p].pc # "auth_lookup") =>
            IF gor[p].req.cookie \in DOMAIN SessionStore
                THEN gor'[p].pc = "next"
                ELSE /\ last' = [op |-> "answer", req |-> gor[p].req, user |-> 0,
                                 resp |-> Redirect("/login")]
                     /\ UNCHANGED <<users, games, rsvps, chat_messages, SessionStore>>]_vars

\* C6: a token carried by an answered Logout is no key of SessionStore any
\* more: the lookup of IsAuthenticated and GetCurrentUser fails for it.
C6_LogoutInvalidates == \A t \in revoked : ~Lookup(SessionStore, t).ok

\* C7: at most one user has each email; a step that changes the table users
\* adds one user with an email no user had; and a registration is answered
\* with the redirect of success only when it created its user.
C7_UniqueEmail ==
    /\ [](\A u1, u2 \in users : u1.email = u2.email => u1 = u2)
    /\ [][/\ users' # users =>
                \E new \in users' :
                    /\ users' = users \cup {new}
                    /\ \A u \in users : u.email # new.email /\ u.id # new.id
          /\ (last'.op = "answer" /\ last'.req.kind = "register"
                /\ last'.resp = Redirect("/login")) => users' # users]_vars

\* Two registrations of one email ran concurrently: the one that lost is
\* answered with a failure, and one user has the email.
C7_Witness ==
    /\ last.op = "answer"
    /\ last.req.kind = "register"
    /\ last.resp.code = 500
    /\ Cardinality({u \in users : u.email = last.req.email}) = 1

\* C8: a POST /register with a well-formed form that fails (its email is
\* taken) is answered with the registration form and "Email already registered.".
C8_DuplicateEmailIsValidationError ==
    (/\ last.op = "answer"
     /\ last.req.kind = "register"
     /\ last.req.email # "" /\ last.req.password # ""
     /\ last.req.password = last.req.confirm
     /\ last.resp # Redirect("/login"))
        => last.resp = Render("auth/register.html", "Email already registered.")

\* Position of x in the history of submissions (larger is more recent).
Recency(x) == CHOOSE i \in DOMAIN submitOrder : submitOrder[i] = x

\* C9: GetRSVPsForGame lists the RSVPs most recently submitted first.
C9_MostRecentFirst ==
    last.op = "list" =>
        \A i, j \in DOMAIN last.result :
            i < j => Recency(<<last.result[i].user_id, last.game_id>>)
                        > Recency(<<last.result[j].user_id, last.game_id>>)

\* C10: after the second submission of a pair, updated_at > created_at.
C10_UpdatedAfterCreated ==
    \A x \in DOMAIN submits :
        submits[x] >= 2 => \A r \in RowsOf(rsvps, x[1], x[2]) : r.updated_at > r.created_at

\* C11: the first call of CreateOrUpdateRSVP for a pair creates its row with
\* created_at = updated_at; every later call leaves the row's id, user, game
\* and created_at as they were; and no call touches the rows of other pairs.
C11_UpsertTimestamps ==
    [][\A u \in UserIds, g \in GameIdInputs, s \in RSVPStatuses :
          DBCreateOrUpdateRSVP(u, g, s) =>
            /\ RowsOf(rsvps, u, g) = {} =>
                    \A new \in RowsOf(rsvps', u, g) : new.created_at = new.updated_at
            /\ \A old \in RowsOf(rsvps, u, g) :
                    \E new \in RowsOf(rsvps', u, g) :
                        /\ RowsOf(rsvps', u, g) = {new}
                        /\ [new EXCEPT !.status = old.status, !.updated_at = old.updated_at] = old
            /\ rsvps' \ RowsOf(rsvps', u, g) = rsvps \ RowsOf(rsvps, u, g)]_vars

\* A row created in one second and submitted again in a later one, with
\* another status.
C11_Witness ==
    \E r \in rsvps :
        /\ <<r.user_id, r.game_id>> \in DOMAIN submits
        /\ submits[<<r.user_id, r.game_id>>] = 2
        /\ r.created_at = 0 /\ r.updated_at = MaxTime
        /\ r.status = RSVPStatusMaybe

\* C12: every RSVP row has a status among attending, not_attending, maybe;
\* and no step of a POST /games/{id}/rsvp whose status is outside that set
\* changes the table rsvps or reaches the upsert: the request is answered with
\* a rejection (400, or 401 or the redirect to /login without a session).
C12_InvalidStatusRejected ==
    /\ [](\A r \in rsvps : r.status \in RSVPStatuses)
    /\ [][\A p \in Procs :
            (/\ gor[p].req.kind = "rsvp"
             /\ gor[p].req.status \notin RSVPStatuses
             /\ gor'[p] # gor[p]) =>
                /\ rsvps' = rsvps
                /\ gor'[p].pc \notin {"rsvp_upsert", "rsvp_render"}
                /\ (last'.op = "answer" /\ ~crashed') =>
                        last'.resp \in {Redirect("/login"),
                                        Unauthenticated,
                                        HttpError(400, "Invalid RSVP status value")}]_vars

\* An authenticated submission with the status "bogus" was answered with 400.
C12_Witness ==
    /\ last.op = "answer"
    /\ last.req.kind = "rsvp"
    /\ last.req.status = "bogus"
    /\ last.resp = HttpError(400, "Invalid RSVP status value")

\* C13: a token issued by a login resolves to the same user in every later
\* state until a logout carrying it is processed: every token handed out in
\* a cookie is a key of SessionStore or was revoked, and no step removes or
\* changes the entry of a token that this step does not revoke.
C13_NoExpiry ==
    /\ [](\A t \in cookies : t \in DOMAIN SessionStore \/ t \in revoked)
    /\ [][\A t \in DOMAIN SessionStore :
            t \notin revoked' =>
                /\ t \in DOMAIN SessionStore'
                /\ SessionStore'[t] = SessionStore[t]]_vars

\* C15: a logout without a session cookie, or with a token that is no key of
\* SessionStore (unknown or already revoked), leaves SessionStore unchanged
\* and is answered with the redirect to /login.
C15_LogoutIdempotent ==
    [][/\ (last'.op = "answer" /\ last'.req.kind = "logout"
                /\ last'.req.cookie \notin DOMAIN SessionStore) =>
            /\ SessionStore' = SessionStore
            /\ last'.resp = Redirect("/login")
       /\ \A p \in Procs :
            (/\ gor[p].pc = "logout_delete"
             /\ gor[p].req.cookie \notin DOMAIN SessionStore
             /\ gor'[p].pc # "logout_delete") =>
                /\ SessionStore' = SessionStore
                /\ last' = [op |-> "answer", req |-> gor[p].req, user |-> 0,
                            resp |-> Redirect("/login")]]_vars

\* C16: a login with a non-empty email and password that match no user,
\* whether no user has the email or the email's user has another password, is
\* answered with the login form and 'Invalid email or password.' in both
\* cases, and the step that answers adds no entry to SessionStore and hands
\* out no cookie.
C16_LoginFailureGeneric ==
    [][(/\ last'.op = "answer" /\ last' # last
        /\ last'.req.kind = "login"
        /\ last'.req.email # "" /\ last'.req.password # ""
        /\ ~\E u \in users :
                /\ u.email = last'.req.email
                /\ u.password_hash = GenerateFromPassword(last'.req.password)) =>
            /\ last'.resp = Render("auth/login.html", "Invalid email or password.")
            /\ SessionStore' = SessionStore
            /\ cookies' = cookies]_vars

\* A login with a known email and a wrong password was answered with the
\* generic message.
C16_Witness ==
    /\ last.op = "answer"
    /\ last.req.kind = "login"
    /\ last.req.password = "bad"
    /\ \E u \in users : u.email = last.req.email
    /\ last.resp = Render("auth/login.html", "Invalid email or password.")

\* C17: SessionStore gains an entry only in the step in which a POST /login
\* stores its session: the email of the request belongs to a user whose
\* stored hash is that of the request's password, the new entry maps the
\* token issued to this request to that user's id, the token is handed out in
\* the cookie, and the answer is the redirect to /games.
C17_LoginCreatesEntry ==
    [][\A t \in DOMAIN SessionStore' \ DOMAIN SessionStore :
          \E p \in Procs, u \in users :
            /\ gor[p].pc = "login_store"
            /\ gor[p].req.kind = "login"
            /\ gor[p].req.cookie = t
            /\ u.email = gor[p].req.email
            /\ u.password_hash = GenerateFromPassword(gor[p].req.password)
            /\ SessionStore'[t] = u.id
            /\ DOMAIN SessionStore' = DOMAIN SessionStore \cup {t}
            /\ t \in cookies'
            /\ last' = [op |-> "answer", req |-> gor[p].req, user |-> u.id,
                        resp |-> Redirect("/games")]]_vars

\* A login was answered with the redirect to /games and its token resolves to
\* the user of the request's email.
C17_Witness ==
    /\ last.op = "answer"
    /\ last.req.kind = "login"
    /\ last.resp = Redirect("/games")
    /\ last.req.cookie \in DOMAIN SessionStore
    /\ \E u \in users : u.email = last.req.email /\ SessionStore[last.req.cookie] = u.id

\* C18: no step of a POST /games/{id}/chat whose content is empty after
\* trimming whitespace changes the table chat_messages; once authenticated
\* the request goes to the rejection, never to the insert; and its answer is
\* the partial with the game's transcript as it is stored and the error
\* 'Message content cannot be empty.'.
C18_EmptyChatRejected ==
    [][\A p \in Procs :
          (/\ gor[p].req.kind = "chat"
           /\ gor[p].req.content \in Whitespace
           /\ gor'[p] # gor[p]) =>
              /\ chat_messages' = chat_messages
              /\ gor'[p].pc \notin {"chat_create", "chat_render"}
              /\ (gor[p].pc = "chat_empty" /\ ~crashed') =>
                    /\ last'.op = "answer"
                    /\ last'.req = gor[p].req
                    /\ last'.resp.kind = "games/_chat_messages.html"
                    /\ last'.resp.detail = "Message content cannot be empty."
                    /\ last'.resp.data \in
                            GetChatMessagesForGame(chat_messages', users', gor[p].req.game_id)]_vars

\* A whitespace-only message was rejected for a game that has a message: the
\* answer carries that transcript and the error.
C18_Witness ==
    /\ last.op = "answer"
    /\ last.req.kind = "chat"
    /\ last.req.content \in Whitespace
    /\ last.resp.detail = "Message content cannot be empty."
    /\ last.resp.data # << >>

\* C19: the transcript that GetChatMessagesForGame returns to the chat
\* handler lists the game's messages in the order they were posted (the ids
\* of chat_messages grow with every insert): oldest first.
C19_ChatOldestFirst ==
    (last.op = "answer" /\ last.req.kind = "chat" /\ "data" \in DOMAIN last.resp) =>
        \A i, j \in DOMAIN last.resp.data :
            i < j => last.resp.data[i].id < last.resp.data[j].id

\* C20: the table chat_messages only grows, and only by the insert of a
\* POST /games/{id}/chat with non-empty content: the step adds exactly one
\* message, with a new id, the request's game, the current user as author, the
\* submitted content and the current time; every message of a state is in
\* every later state, unchanged.
C20_ChatAppendOnly ==
    [][/\ chat_messages \subseteq chat_messages'
       /\ chat_messages' # chat_messages =>
            \E p \in Procs, m \in chat_messages' :
                /\ gor[p].pc = "chat_create"
                /\ TrimSpace(gor[p].req.content) # ""
                /\ chat_messages' = chat_messages \cup {m}
                /\ \A old \in chat_messages : old.id # m.id
                /\ m.game_id = gor[p].req.game_id
                /\ m.user_id = gor[p].user
                /\ m.message_content = gor[p].req.content
                /\ m.created_at = now
       /\ \A p \in Procs :
            (gor[p].pc = "chat_create" /\ gor'[p].pc = "chat_render") =>
                Cardinality(chat_messages') = Cardinality(chat_messages) + 1]_vars

\* Two messages were posted.
C20_Witness == Cardinality(chat_messages) >= 2

\* C21: GetRSVPByUserForGame returns sql.ErrNoRows exactly when the pair has
\* no RSVP row and otherwise the pair's single row; and the handlers that call
\* it render the page (GameDetailPage) or the section (SubmitRSVP) also when
\* it returned sql.ErrNoRows, with a nil CurrentUserRSVP.
C21_NotFoundIffNoRow ==
    /\ \A u \in UserIds \cup {r.user_id : r \in rsvps}, g \in GameIdInputs :
         LET res == GetRSVPByUserForGame(rsvps, users, u, g)
         IN  /\ res.err = "sql.ErrNoRows" <=> RowsOf(rsvps, u, g) = {}
             /\ \A r \in RowsOf(rsvps, u, g) :
                    /\ RowsOf(rsvps, u, g) = {r}
                    /\ res.err = "nil"
                    /\ res.rsvp.id = r.id /\ res.rsvp.status = r.status
                    /\ res.rsvp.user_id = u /\ res.rsvp.game_id = g
    /\ (/\ last.op = "answer"
        /\ last.req.kind = "game_detail"
        /\ GetGameByID(games, last.req.game_id).err = "nil") =>
            /\ last.resp.code = 200
            /\ last.resp.kind = "games/game_detail.html"
            /\ last.resp.data.CurrentUserRSVP =
                    IF last.user = 0 THEN ErrNoRows
                    ELSE GetRSVPByUserForGame(rsvps, users, last.user, last.req.game_id)

\* A logged-in user who has no RSVP for the game was shown the game's page.
C21_Witness ==
    /\ last.op = "answer"
    /\ last.req.kind = "game_detail"
    /\ last.user # 0
    /\ last.resp.code = 200
    /\ last.resp.data.CurrentUserRSVP = ErrNoRows
    /\ rsvps # {}

\* C22: what GetRSVPsForGame(g) returns has exactly one entry for every user
\* who has an RSVP row for g and no other entry: every entry is of game g and
\* carries the status stored for its user and that user's email.
C22_ListExact ==
    last.op = "list" =>
        LET f == last.result
            g == last.game_id
        IN  /\ {f[i].user_id : i \in DOMAIN f} = {r.user_id : r \in {x \in rsvps : x.game_id = g}}
            /\ \A i, j \in DOMAIN f : f[i].user_id = f[j].user_id => i = j
            /\ \A i \in DOMAIN f :
                /\ f[i].game_id = g
                /\ \E r \in RowsOf(rsvps, f[i].user_id, g) : r.status = f[i].status
                /\ \E u \in users : u.id = f[i].user_id /\ u.email = f[i].user_email

\* The list of a game with one RSVP was returned while another game has an
\* RSVP too.
C22_Witness ==
    /\ last.op = "list"
    /\ Len(last.result) = 1
    /\ \E r \in rsvps : r.game_id # last.game_id

\* The request fails a validation of its form (it is judged once it passed
\* the authentication its route requires).
InvalidForm(req) ==
    \/ req.kind = "register" /\ (req.email = "" \/ req.password = "" \/ req.password # req.confirm)
    \/ req.kind = "create_game" /\ req.form # "valid"
    \/ req.kind = "rsvp" /\ req.status \notin RSVPStatuses
    \/ req.kind = "chat" /\ req.content \in Whitespace

\* C23: a request with a validation error, once authenticated, is answered
\* with the re-rendered form or section (status 200, a template) and a
\* message, and no step of it changes users, games, rsvps, chat_messages or
\* SessionStore.
C23_ValidationErrorsLocal ==
    /\ []((/\ last.op = "answer"
           /\ InvalidForm(last.req)
           /\ last.resp # Redirect("/login")
           /\ last.resp # Unauthenticated) =>
              /\ last.resp.code = 200
              /\ last.resp.kind \in {"auth/register.html", "games/new_game.html",
                                     "games/_rsvp_section.html", "games/_chat_messages.html"}
              /\ last.resp.detail # "")
    /\ [][\A p \in Procs :
            (InvalidForm(gor'[p].req) \/ InvalidForm(gor[p].req)) /\ gor'[p] # gor[p] /\ ~crashed' =>
                UNCHANGED <<users, games, rsvps, chat_messages, SessionStore>>]_vars

\* C23 (as the code has it): a validation error on register, on game
\* creation or on chat is answered 200 with the re-rendered form or section
\* and a message; an invalid RSVP status is answered 400 with a plain-text
\* message. No step on such a request creates or changes a user, a game, an
\* RSVP row or a chat message, or adds or re-assigns a SessionStore entry.
C23_ValidationErrorAnswers ==
    /\ []((/\ last.op = "answer"
           /\ InvalidForm(last.req)
           /\ last.resp # Redirect("/login")
           /\ last.resp # Unauthenticated) =>
              IF last.req.kind = "rsvp"
                THEN last.resp = HttpError(400, "Invalid RSVP status value")
                ELSE /\ last.resp.code = 200
                     /\ last.resp.kind \in {"auth/register.html", "games/new_game.html",
                                            "games/_chat_messages.html"}
                     /\ last.resp.detail # "")
    /\ [][\A p \in Procs :
            (InvalidForm(gor'[p].req) \/ InvalidForm(gor[p].req)) /\ gor'[p] # gor[p] =>
                /\ UNCHANGED <<users, games, rsvps, chat_messages>>
                /\ \A t \in DOMAIN SessionStore' :
                        t \in DOMAIN SessionStore /\ SessionStore'[t] = SessionStore[t]]_vars

\* An authenticated submission of a status outside the enumeration was
\* answered.
C23_Witness ==
    /\ last.op = "answer"
    /\ last.req.kind = "rsvp"
    /\ last.req.status \notin RSVPStatuses
    /\ last.resp.code = 400

\* C24: every RSVP row and every chat message refers to an existing user and
\* to an existing game.
C24_ReferentialIntegrity ==
    /\ \A r \in rsvps :
            (\E u \in users : u.id = r.user_id) /\ GetGameByID(games, r.game_id).err = "nil"
    /\ \A m \in chat_messages :
            (\E u \in users : u.id = m.user_id) /\ GetGameByID(games, m.game_id).err = "nil"

\* C25: the RSVP section answered by a successful POST /games/{id}/rsvp shows
\* as the caller's RSVP the status the request submitted, and the stored row
\* of the caller for that game has that status when the answer is given.
C25_ShowsSubmittedStatus ==
    (/\ last.op = "answer"
     /\ last.req.kind = "rsvp"
     /\ last.resp.kind = "games/_rsvp_section.html") =>
        /\ last.resp.data.CurrentUserRSVP.err = "nil"
        /\ last.resp.data.CurrentUserRSVP.rsvp.status = last.req.status
        /\ \A r \in RowsOf(rsvps, last.user, last.req.game_id) : r.status = last.req.status

\* C25 (as the code has it): the section shows the row stored for the caller
\* and the game when the handler re-reads the store, and such a row exists;
\* its status is the submitted one when no other submission of the same user
\* for the same game was applied since the request's own.
C25_ShowsStoredStatus ==
    [][\A p \in Procs :
        (/\ gor[p].pc = "rsvp_render"
         /\ gor'[p].pc = "idle"
         /\ last'.op = "answer"
         /\ last'.resp.code = 200) =>
            LET u == gor[p].user
                g == gor[p].req.game_id
                cur == GetRSVPByUserForGame(rsvps, users, u, g)
            IN  /\ cur.err = "nil"
                /\ last'.resp.data.CurrentUserRSVP = cur
                /\ \A r \in RowsOf(rsvps', u, g) : r.status = cur.rsvp.status
                /\ submits[<<u, g>>] = gor[p].seq => cur.rsvp.status = gor[p].req.status]_vars

\* A submission was answered with the section showing another status than
\* the one it submitted.
C25_Witness ==
    /\ last.op = "answer"
    /\ last.req.kind = "rsvp"
    /\ last.resp.code = 200
    /\ last.resp.data.CurrentUserRSVP.err = "nil"
    /\ last.resp.data.CurrentUserRSVP.rsvp.status # last.req.status

C27_LogoutInterleaving ==
    [][\A p \in Procs :
        (/\ gor[p].pc = "cur_lookup"
         /\ gor[p].req.kind \in {"rsvp", "chat", "create_game"}
         /\ gor[p].req.cookie \in cookies
         /\ ~gor[p].raced
         /\ gor'[p].pc # "cur_lookup"
         /\ ~crashed') =>
            /\ UNCHANGED <<users, games, rsvps, chat_messages, SessionStore>>
            /\ IF gor[p].req.cookie \in DOMAIN SessionStore
                 THEN gor'[p].pc # "idle" => gor'[p].user = SessionStore[gor[p].req.cookie]
                 ELSE /\ gor'[p].pc = "idle"
                      /\ last'.op = "answer"
                      /\ last'.resp \in {Redirect("/login"), Unauthenticated}]_vars

\* C28: a POST /games/{id}/rsvp or POST /games/{id}/chat answered with a 4xx
\* or 5xx status has applied no write: a request that is past its upsert or
\* its insert (it applied the write) is answered with a status below 400.
C28_ErrorMeansNoWrite ==
    [][\A p \in Procs :
        (/\ gor[p].pc \in {"rsvp_render", "chat_render"}
         /\ gor'[p].pc = "idle"
         /\ last'.op = "answer") => last'.resp.code < 400]_vars

\* C29: every entry of SessionStore maps to the id of an existing user, so for
\* every cookie that IsAuthenticated accepts in this state (the lookup finds
\* it), GetCurrentUser in this state returns the user with the entry's id and
\* no error.
C29_SessionsOfExistingUsers ==
    /\ \A t \in DOMAIN SessionStore : \E u \in users : u.id = SessionStore[t]
    /\ \A t \in CookieInputs \cup DOMAIN SessionStore :
            Lookup(SessionStore, t).ok =>
                LET cur == GetUserByID(users, Lookup(SessionStore, t).userID)
                IN  cur.err = "nil" /\ cur.user.id = SessionStore[t] /\ cur.user \in users

\* A protected handler runs as the user its cookie's entry names, while the
\* registry holds the sessions of two users.
C29_Witness ==
    /\ \E p \in Procs :
            /\ gor[p].pc \in {"rsvp_upsert", "chat_create", "game_create"}
            /\ gor[p].req.cookie \in DOMAIN SessionStore
            /\ gor[p].user = SessionStore[gor[p].req.cookie]
    /\ Cardinality(Range(SessionStore)) = 2

\* C30: a step that changes the table rsvps is the submission of one pair
\* (u, g), the most recent of submitOrder after it: every row it adds, removes
\* or changes is of user u and game g, the rows of every other pair are as
\* they were, and the tables users, games and chat_messages are unchanged.
C30_OnlyOwnRow ==
    [][rsvps' # rsvps =>
        /\ submitOrder' # << >>
        /\ submits' # submits
        /\ LET x == submitOrder'[Len(submitOrder')]
           IN  /\ \A r \in (rsvps \ rsvps') \cup (rsvps' \ rsvps) :
                        r.user_id = x[1] /\ r.game_id = x[2]
               /\ \A r \in rsvps : r \notin RowsOf(rsvps, x[1], x[2]) => r \in rsvps'
        /\ UNCHANGED <<users, games, chat_messages>>]_vars

\* A submission was applied to the row of its pair while the table holds a
\* row of another pair.
C30_Witness ==
    /\ submitOrder # << >>
    /\ LET x == submitOrder[Len(submitOrder)]
       IN  /\ RowsOf(rsvps, x[1], x[2]) # {}
           /\ rsvps \ RowsOf(rsvps, x[1], x[2]) # {}

====
